---------------------------- MODULE Spec2Model ----------------------------
(***************************************************************************)
(* Delhi Fog Live Tracker (src/app.py): the log parsing, cleaning,         *)
(* windowing and summary pipeline of load_data_safe() and main().          *)
(*                                                                         *)
(* A CSV cell of the Data_Row column is a sequence of one-character        *)
(* strings, so the regular expressions of load_data_safe are modelled by   *)
(* what they match.  A cell of the Timestamp column is either a naive      *)
(* date-time text (its wall-clock hour), an empty cell, or a text that     *)
(* pandas cannot parse.  Time is counted in whole hours.  The CSV has the   *)
(* two columns the code names, Timestamp and Data_Row; a cleaned frame      *)
(* keeps each row's index label, its Timestamp and the extracted columns.   *)
(***************************************************************************)
EXTENDS Integers, Sequences, FiniteSets

VARIABLES
    pc,           \* position of the script run: idle, loaded, header, done, error
    served,       \* the rows pd.read_csv(DATA_URL) returned to this run
    df_gen,       \* cleaned general-visibility frame (main, line 164)
    df_rvr,       \* cleaned runway-visual-range frame (main, line 164)
    latest_time,  \* df_gen['Timestamp'].max() (line 165)
    time_range,   \* the selectbox value (line 199)
    f_gen,        \* windowed general frame (line 208)
    f_rvr,        \* windowed runway frame (line 209)
    summary,      \* the metric cards emitted (lines 231-244): <<>> or <<record>>
    error,        \* what st.error reports (line 306): "" when nothing was raised
    dropped       \* history: the output this run replaces held a reading of a
                  \* row that the source no longer holds

vars == <<pc, served, df_gen, df_rvr, latest_time, time_range, f_gen, f_rvr,
          summary, error, dropped>>

-----------------------------------------------------------------------------
(* Bounds *)

\* Longest CSV (number of data rows) a run is served.
MaxRows == 3

\* Physically valid visibility, in metres (lines 151-152).
VisMax == 5000

-----------------------------------------------------------------------------
(* Characters and the texts of the Data_Row column *)

Digits == {"0", "1", "2", "3", "4", "5", "6", "7", "8", "9"}

Letters ==
    {"A", "B", "C", "D", "E", "F", "G", "H", "I", "J", "K", "L", "M", "N",
     "O", "P", "Q", "R", "S", "T", "U", "V", "W", "X", "Y", "Z",
     "a", "b", "c", "d", "e", "f", "g", "h", "i", "j", "k", "l", "m", "n",
     "o", "p", "q", "r", "s", "t", "u", "v", "w", "x", "y", "z"}

\* \s of the patterns
Spaces == {" ", "\t"}

\* [\w\d] of the runway pattern
WordChars == Letters \cup Digits \cup {"_"}

DigitVal(c) ==
    CASE c = "0" -> 0 [] c = "1" -> 1 [] c = "2" -> 2 [] c = "3" -> 3
      [] c = "4" -> 4 [] c = "5" -> 5 [] c = "6" -> 6 [] c = "7" -> 7
      [] c = "8" -> 8 [] c = "9" -> 9

\* The literal texts of the two patterns.
GEN_VIS == <<"G", "E", "N", ".", " ", "V", "I", "S", ".">>

RVR == <<"R", "V", "R">>

\* pattern[k] = "." is the regular expression's wildcard (any character but
\* a line break): str.contains takes its argument as a regular expression.
MatchAt(text, i, pattern) ==
    /\ i + Len(pattern) - 1 <= Len(text)
    /\ \A k \in 1..Len(pattern) :
          \/ pattern[k] = "." /\ text[i + k - 1] # "\n"
          \/ pattern[k] = text[i + k - 1]

\* Series.str.contains(pattern, na=False)
str_contains(text, pattern) ==
    \E i \in 1..Len(text) : MatchAt(text, i, pattern)

\* An escaped pattern text: every character stands for itself.
LiteralAt(text, i, lit) ==
    /\ i + Len(lit) - 1 <= Len(text)
    /\ \A k \in 1..Len(lit) : text[i + k - 1] = lit[k]

\* The position after the longest run of characters of class S from i on.
RunEnd(text, i, S) ==
    CHOOSE j \in i..(Len(text) + 1) :
        /\ \A k \in i..(j - 1) : text[k] \in S
        /\ j = Len(text) + 1 \/ text[j] \notin S

\* pd.to_numeric of a run of decimal digits.
RECURSIVE to_numeric(_)
to_numeric(ds) ==
    IF ds = <<>> THEN 0
    ELSE 10 * to_numeric(SubSeq(ds, 1, Len(ds) - 1)) + DigitVal(ds[Len(ds)])

\* An extraction that matched nothing: the NaN cells of str.extract.
NoMatch == [ok |-> FALSE, vis |-> 0, runway |-> <<>>]

\* GEN\. VIS\.\s+:(\d+) tried at position i.
GenMatchAt(text, i) ==
    IF ~LiteralAt(text, i, GEN_VIS) THEN NoMatch
    ELSE LET a == i + Len(GEN_VIS)
             b == RunEnd(text, a, Spaces)
         IN  IF b = a \/ b > Len(text) \/ text[b] # ":" THEN NoMatch
             ELSE LET d == RunEnd(text, b + 1, Digits)
                  IN  IF d = b + 1 THEN NoMatch
                      ELSE [ok |-> TRUE,
                            vis |-> to_numeric(SubSeq(text, b + 1, d - 1)),
                            runway |-> <<>>]

\* RVR\s+([\w\d]+)\s+:(\d+) tried at position i.
RvrMatchAt(text, i) ==
    IF ~LiteralAt(text, i, RVR) THEN NoMatch
    ELSE LET a == i + Len(RVR)
             b == RunEnd(text, a, Spaces)
             c == RunEnd(text, b, WordChars)
             d == RunEnd(text, c, Spaces)
         IN  IF b = a \/ c = b \/ d = c \/ d > Len(text) \/ text[d] # ":"
             THEN NoMatch
             ELSE LET e == RunEnd(text, d + 1, Digits)
                  IN  IF e = d + 1 THEN NoMatch
                      ELSE [ok |-> TRUE,
                            vis |-> to_numeric(SubSeq(text, d + 1, e - 1)),
                            runway |-> SubSeq(text, b, c - 1)]

\* Series.str.extract: the first (leftmost) match of the pattern in the text.
extract_gen(text) ==
    LET hits == {i \in 1..Len(text) : GenMatchAt(text, i).ok}
    IN  IF hits = {} THEN NoMatch
        ELSE GenMatchAt(text, CHOOSE i \in hits : \A j \in hits : i <= j)

extract_rvr(text) ==
    LET hits == {i \in 1..Len(text) : RvrMatchAt(text, i).ok}
    IN  IF hits = {} THEN NoMatch
        ELSE RvrMatchAt(text, CHOOSE i \in hits : \A j \in hits : i <= j)

-----------------------------------------------------------------------------
(* The rows a run can be served *)

Naive(h) == [kind |-> "naive", wall |-> h]

Unparseable == [kind |-> "bad", wall |-> 0]

EmptyCell == [kind |-> "empty", wall |-> 0]

GenText(d1, d2, d3, d4) == GEN_VIS \o <<" ", ":", d1, d2, d3, d4>>

RvrText(r1, r2, d1, d2, d3, d4) == RVR \o <<" ", r1, r2, " ", ":", d1, d2, d3, d4>>

Row(cell, text) == [Timestamp |-> cell, Data_Row |-> text]

\* Well-formed general-visibility rows at five instants, oldest first.  From
\* the last one the others are 6, 24, 168 and 192 hours back.
GenRows ==
    { Row(Naive(0),   GenText("0", "8", "0", "0")),
      Row(Naive(24),  GenText("0", "6", "0", "0")),
      Row(Naive(168), GenText("0", "3", "0", "0")),
      Row(Naive(186), GenText("0", "1", "5", "0")),
      Row(Naive(192), GenText("0", "0", "4", "0")) }

\* Well-formed runway rows.
RvrRows ==
    { Row(Naive(168), RvrText("2", "8", "0", "0", "7", "5")),
      Row(Naive(186), RvrText("2", "9", "0", "0", "4", "0")),
      Row(Naive(192), RvrText("2", "8", "0", "0", "7", "5")),
      Row(Naive(192), RvrText("2", "9", "0", "0", "6", "0")) }

\* Sentinel values, failed extractions, a row with both markers, a row with
\* none, and rows whose Timestamp cell is unparseable or empty.
OddRows ==
    { Row(Naive(192), GenText("9", "9", "9", "9")),
      Row(Naive(192), GEN_VIS \o <<" ", ":", "a", "b", "c">>),
      Row(Naive(192), RvrText("2", "8", "9", "9", "9", "9")),
      Row(Naive(192), GenText("0", "3", "5", "0") \o <<" ">>
                         \o RvrText("2", "8", "0", "0", "7", "5")),
      Row(Naive(192), <<"W", "I", "N", "D", " ", "C", "A", "L", "M">>),
      Row(Unparseable, GenText("0", "3", "0", "0")),
      Row(EmptyCell,   GenText("0", "3", "0", "0")) }

Rows == GenRows \cup RvrRows \cup OddRows

\* Every CSV of at most MaxRows rows, in every order, with repetitions.
Sources == UNION { [1..n -> Rows] : n \in 0..MaxRows }

\* The CSVs of successive polls: a short log that is appended to, truncated
\* or rewritten between two runs.
PollRows ==
    { Row(Naive(186), GenText("0", "1", "5", "0")),
      Row(Naive(192), GenText("0", "0", "4", "0")),
      Row(Naive(192), RvrText("2", "8", "0", "0", "7", "5")) }

PollSources == UNION { [1..n -> PollRows] : n \in 0..MaxRows }

\* Every reading value of the valid range: one general-visibility row whose
\* four digits are the decimal text of v.
DigitChar(n) ==
    CASE n = 0 -> "0" [] n = 1 -> "1" [] n = 2 -> "2" [] n = 3 -> "3"
      [] n = 4 -> "4" [] n = 5 -> "5" [] n = 6 -> "6" [] n = 7 -> "7"
      [] n = 8 -> "8" [] n = 9 -> "9"

FogRows ==
    { Row(Naive(192),
          GenText(DigitChar(v \div 1000), DigitChar((v \div 100) % 10),
                  DigitChar((v \div 10) % 10), DigitChar(v % 10))) :
      v \in 0..VisMax }

FogSources == { <<r>> : r \in FogRows }

\* The texts of Rows, and for each the cells that load_data_safe derives from
\* it, computed once per text; any other text is matched when it is met.
Texts == { r.Data_Row : r \in Rows \cup PollRows }

GenMarkerOf == [text \in Texts |-> str_contains(text, GEN_VIS)]

RvrMarkerOf == [text \in Texts |-> str_contains(text, RVR)]

GenExtractOf == [text \in Texts |-> extract_gen(text)]

RvrExtractOf == [text \in Texts |-> extract_rvr(text)]

\* df_raw['Data_Row'].str.contains('GEN. VIS.', na=False) (line 141)
has_gen_marker(text) ==
    IF text \in Texts THEN GenMarkerOf[text] ELSE str_contains(text, GEN_VIS)

\* df_raw['Data_Row'].str.contains('RVR', na=False) (line 146)
has_rvr_marker(text) ==
    IF text \in Texts THEN RvrMarkerOf[text] ELSE str_contains(text, RVR)

\* df_gen['Data_Row'].str.extract(...) (line 143)
gen_extracted(text) ==
    IF text \in Texts THEN GenExtractOf[text] ELSE extract_gen(text)

\* df_rvr['Data_Row'].str.extract(...) (line 147)
rvr_extracted(text) ==
    IF text \in Texts THEN RvrExtractOf[text] ELSE extract_rvr(text)

-----------------------------------------------------------------------------
(* Timestamps *)

\* pandas' missing timestamp.
NaT == [nat |-> TRUE, inst |-> 0, tz |-> "NaT"]

\* Whether pd.to_datetime raises on the column (errors='raise' is the default).
to_datetime_raises(rows) ==
    \E i \in 1..Len(rows) : rows[i].Timestamp.kind = "bad"

\* pd.to_datetime of one parseable cell: an empty cell becomes NaT.
to_datetime(cell) ==
    IF cell.kind = "empty" THEN NaT
    ELSE [nat |-> FALSE, inst |-> cell.wall, tz |-> "naive"]

\* Series.dt.tz of the parsed column: None for naive timestamps.
dt_tz(col) ==
    LET aware == {i \in 1..Len(col) : ~col[i].nat /\ col[i].tz # "naive"}
    IN  IF aware = {} THEN "None" ELSE col[CHOOSE i \in aware : TRUE].tz

\* Series.dt.tz_localize: the wall clock is read as a time of the zone.
tz_localize(t, zone) == IF t.nat THEN t ELSE [t EXCEPT !.tz = zone]

\* Series.dt.tz_convert: the same instant, shown in another zone.
tz_convert(t, zone) == IF t.nat THEN t ELSE [t EXCEPT !.tz = zone]

\* Lines 136-139, on the whole column.
normalize_timestamps(rows) ==
    LET parsed == [i \in 1..Len(rows) |-> to_datetime(rows[i].Timestamp)]
        utc    == IF dt_tz(parsed) = "None"
                  THEN [i \in 1..Len(rows) |-> tz_localize(parsed[i], "UTC")]
                  ELSE parsed
    IN  [i \in 1..Len(rows) |-> tz_convert(utc[i], "Asia/Kolkata")]

\* a >= b on timestamps: every comparison with NaT is False.
ts_ge(a, b) == ~a.nat /\ ~b.nat /\ a.inst >= b.inst

\* Series.max(): NaT values are skipped, an empty series gives NaT.
series_max(frame) ==
    LET ok == {i \in 1..Len(frame) : ~frame[i].Timestamp.nat}
    IN  IF ok = {} THEN NaT
        ELSE frame[CHOOSE i \in ok :
                      \A j \in ok : frame[i].Timestamp.inst >= frame[j].Timestamp.inst
                  ].Timestamp

\* A strftime that formats NaT as a text instead of raising.
strftime_formats_nat(t) == FALSE

\* Timestamp.strftime raises ValueError on NaT.
strftime_raises(t) == t.nat

-----------------------------------------------------------------------------
(* load_data_safe: the two cleaned frames *)

\* The range filter with its upper bound forgotten.
in_range_no_upper(v) == v >= 0

\* (vis >= 0) & (vis <= 5000); a NaN compares False and is passed as ~ok.
in_range(v) == v >= 0 /\ v <= VisMax

\* df_raw with the normalized Timestamp column; idx is the row's index label.
raw_frame(rows) ==
    LET ts == normalize_timestamps(rows)
    IN  [i \in 1..Len(rows) |->
            [idx |-> i, Timestamp |-> ts[i], Data_Row |-> rows[i].Data_Row]]

\* Lines 141-144 and 151: the rows holding the marker, the value extracted,
\* the range filter, and dropna() (which drops a NaT Timestamp).
gen_frame(rows) ==
    LET raw == raw_frame(rows)
        Marked(r) == has_gen_marker(r.Data_Row)
        marked == SelectSeq(raw, Marked)
        valued == [i \in 1..Len(marked) |->
                      [idx |-> marked[i].idx,
                       Timestamp |-> marked[i].Timestamp,
                       ex |-> gen_extracted(marked[i].Data_Row)]]
        Kept(r) == r.ex.ok /\ in_range(r.ex.vis) /\ ~r.Timestamp.nat
        kept == SelectSeq(valued, Kept)
    IN  [i \in 1..Len(kept) |->
            [idx |-> kept[i].idx, Timestamp |-> kept[i].Timestamp,
             vis |-> kept[i].ex.vis]]

\* Lines 146-149 and 152, the same for the runway rows.
rvr_frame(rows) ==
    LET raw == raw_frame(rows)
        Marked(r) == has_rvr_marker(r.Data_Row)
        marked == SelectSeq(raw, Marked)
        valued == [i \in 1..Len(marked) |->
                      [idx |-> marked[i].idx,
                       Timestamp |-> marked[i].Timestamp,
                       ex |-> rvr_extracted(marked[i].Data_Row)]]
        Kept(r) == r.ex.ok /\ in_range(r.ex.vis) /\ ~r.Timestamp.nat
        kept == SelectSeq(valued, Kept)
    IN  [i \in 1..Len(kept) |->
            [idx |-> kept[i].idx, Timestamp |-> kept[i].Timestamp,
             runway |-> kept[i].ex.runway, vis |-> kept[i].ex.vis]]

-----------------------------------------------------------------------------
(* main: the window and the metrics *)

TimeRanges == {"Last 6 Hours", "Last 24 Hours", "Last 7 Days"}

\* The map with the number of days where the number of hours belongs.
hours_map_days(tr) ==
    CASE tr = "Last 6 Hours"  -> 6
      [] tr = "Last 24 Hours" -> 24
      [] tr = "Last 7 Days"   -> 7

\* hours_map[time_range] (line 205)
hours_map(tr) ==
    CASE tr = "Last 6 Hours"  -> 6
      [] tr = "Last 24 Hours" -> 24
      [] tr = "Last 7 Days"   -> 168

\* The cutoff with the lookback added instead of subtracted.
cutoff_added(latest, h) ==
    IF latest.nat THEN NaT ELSE [latest EXCEPT !.inst = latest.inst + h]

\* latest_time - timedelta(hours=h) (line 206); NaT minus anything is NaT.
cutoff_of(latest, h) ==
    IF latest.nat THEN NaT ELSE [latest EXCEPT !.inst = latest.inst - h]

\* df[df['Timestamp'] >= cutoff] (lines 208-209): the rows kept in order.
window(frame, cutoff) ==
    LET InWindow(r) == ts_ge(r.Timestamp, cutoff)
    IN  SelectSeq(frame, InWindow)

RECURSIVE vis_sum(_)
vis_sum(frame) ==
    IF frame = <<>> THEN 0
    ELSE frame[1].vis + vis_sum(Tail(frame))

\* int(f_gen.iloc[-1]['vis']) if not f_gen.empty else 0 (line 212)
curr_vis_of(fg) == IF fg = <<>> THEN 0 ELSE fg[Len(fg)].vis

\* int(f_gen['vis'].mean()) if not f_gen.empty else 0 (line 213)
avg_vis_of(fg) == IF fg = <<>> THEN 0 ELSE vis_sum(fg) \div Len(fg)

\* int(f_rvr['vis'].min()) if not f_rvr.empty else 0 (line 233)
min_rvr_of(fr) ==
    IF fr = <<>> THEN 0
    ELSE fr[CHOOSE i \in 1..Len(fr) :
               \A j \in 1..Len(fr) : fr[i].vis <= fr[j].vis].vis

\* The bands with their upper ends excluded.
fog_type_strict(v) ==
    IF v < 50 THEN "Dense"
    ELSE IF v < 200 THEN "Moderate"
    ELSE IF v < 500 THEN "Shallow"
    ELSE "Clear"

\* Lines 215-220.
fog_type_of(v) ==
    IF v <= 50 THEN "Dense"
    ELSE IF v <= 200 THEN "Moderate"
    ELSE IF v <= 500 THEN "Shallow"
    ELSE "Clear"

\* Lines 222-227.
fog_color_of(v) ==
    IF v <= 50 THEN "#dc2626"
    ELSE IF v <= 200 THEN "#f97316"
    ELSE IF v <= 500 THEN "#eab308"
    ELSE "#22c55e"

\* The four cards of lines 229-244.
metrics(fg, fr) ==
    [curr_vis  |-> curr_vis_of(fg),
     crit_rvr  |-> min_rvr_of(fr),
     avg_vis   |-> avg_vis_of(fg),
     fog_type  |-> fog_type_of(curr_vis_of(fg)),
     fog_color |-> fog_color_of(curr_vis_of(fg))]

-----------------------------------------------------------------------------
(* The script run *)

\* An incremental merge: the new rows appended to those already held.
assign_merge(old, new) == old \o new

\* A name bound by an assignment holds the new value and nothing of the old.
assign(old, new) == new

Init ==
    /\ pc = "idle"
    /\ served = <<>>
    /\ df_gen = <<>>
    /\ df_rvr = <<>>
    /\ latest_time = NaT
    /\ time_range = ""
    /\ f_gen = <<>>
    /\ f_rvr = <<>>
    /\ summary = <<>>
    /\ error = ""
    /\ dropped = FALSE

\* A run starts: load_data_safe() on the rows the URL serves now (line 164).
\* The names of an earlier run are not those of this one.
main_load(rows) ==
    /\ pc \in {"idle", "done", "error"}
    /\ served' = rows
    /\ dropped' = \E i \in 1..Len(served) :
                      /\ \/ \E k \in 1..Len(df_gen) : df_gen[k].idx = i
                         \/ \E k \in 1..Len(df_rvr) : df_rvr[k].idx = i
                      /\ \A j \in 1..Len(rows) : rows[j] # served[i]
    /\ latest_time' = NaT
    /\ time_range' = ""
    /\ f_gen' = <<>>
    /\ f_rvr' = <<>>
    /\ summary' = <<>>
    /\ IF to_datetime_raises(rows)
       THEN /\ pc' = "error"
            /\ error' = "to_datetime"
            /\ df_gen' = <<>>
            /\ df_rvr' = <<>>
       ELSE /\ pc' = "loaded"
            /\ error' = ""
            /\ df_gen' = assign(df_gen, gen_frame(rows))
            /\ df_rvr' = assign(df_rvr, rvr_frame(rows))

\* Lines 165-194: the latest timestamp and the header that shows it.
main_header ==
    /\ pc = "loaded"
    /\ latest_time' = series_max(df_gen)
    /\ IF strftime_raises(latest_time')
       THEN pc' = "error" /\ error' = "strftime"
       ELSE pc' = "header" /\ error' = ""
    /\ UNCHANGED <<served, dropped, df_gen, df_rvr, time_range, f_gen, f_rvr,
                   summary>>

\* Lines 199-244: the selected depth, the two windows, the metric cards.
main_window(tr) ==
    /\ pc = "header"
    /\ time_range' = tr
    /\ LET cutoff == cutoff_of(latest_time, hours_map(tr))
       IN  /\ f_gen' = window(df_gen, cutoff)
           /\ f_rvr' = window(df_rvr, cutoff)
    /\ summary' = <<metrics(f_gen', f_rvr')>>
    /\ pc' = "done"
    /\ UNCHANGED <<served, dropped, df_gen, df_rvr, latest_time, error>>

\* The run is over and the script's names are gone; Streamlit will run the
\* script again on the next interaction or refresh.
main_return ==
    /\ pc \in {"done", "error"}
    /\ pc' = "idle"
    /\ served' = <<>>
    /\ df_gen' = <<>>
    /\ df_rvr' = <<>>
    /\ latest_time' = NaT
    /\ time_range' = ""
    /\ f_gen' = <<>>
    /\ f_rvr' = <<>>
    /\ summary' = <<>>
    /\ error' = ""
    /\ dropped' = FALSE

Next ==
    \/ pc = "idle" /\ \E rows \in Sources : main_load(rows)
    \/ main_header
    \/ \E tr \in TimeRanges : main_window(tr)
    \/ main_return

Spec == Init /\ [][Next]_vars

\* Successive polls: a run starts while the output of the run before it is
\* still on the page, on a source that has changed in between.
NextPolls ==
    \/ \E rows \in PollSources : main_load(rows)
    \/ main_header
    \/ \E tr \in TimeRanges : main_window(tr)
    \/ main_return

SpecPolls == Init /\ [][NextPolls]_vars

NextFog ==
    \/ pc = "idle" /\ \E rows \in FogSources : main_load(rows)
    \/ main_header
    \/ \E tr \in TimeRanges : main_window(tr)
    \/ main_return

SpecFog == Init /\ [][NextFog]_vars

-----------------------------------------------------------------------------
(* Properties *)

Elems(frame) == {frame[i] : i \in 1..Len(frame)}

Insts(frame) == {frame[i].Timestamp.inst : i \in 1..Len(frame)}

IdxOf(frame) == {frame[i].idx : i \in 1..Len(frame)}

Max(S) == CHOOSE x \in S : \A y \in S : x >= y

Min(S) == CHOOSE x \in S : \A y \in S : x <= y

\* C1: in a finished run every reading of window_general and of
\* window_runway lies between latest_timestamp - L and latest_timestamp,
\* latest_timestamp being the greatest timestamp of the cleaned general
\* series and L the selected lookback; no runway reading later than the latest
\* general reading is in window_runway.
C1_WindowWithinLookback ==
    pc = "done" =>
        LET latest == Max(Insts(df_gen))
            L == CASE time_range = "Last 6 Hours"  -> 6
                   [] time_range = "Last 24 Hours" -> 24
                   [] time_range = "Last 7 Days"   -> 168
        IN  \A t \in Insts(f_gen) \cup Insts(f_rvr) :
                latest - L <= t /\ t <= latest

\* C2: every reading of the two cleaned series and of the two windows has
\* 0 <= vis <= 5000, the row it was read from carries that very value, and
\* the three numeric metrics lie in the same range: no row whose extracted
\* value is out of range or missing reaches a series, a window or a metric.
C2_VisInRange ==
    /\ \A r \in Elems(df_gen) \cup Elems(f_gen) :
          /\ r.vis >= 0 /\ r.vis <= 5000
          /\ r.idx \in 1..Len(served)
          /\ gen_extracted(served[r.idx].Data_Row).ok
          /\ gen_extracted(served[r.idx].Data_Row).vis = r.vis
    /\ \A r \in Elems(df_rvr) \cup Elems(f_rvr) :
          /\ r.vis >= 0 /\ r.vis <= 5000
          /\ r.idx \in 1..Len(served)
          /\ rvr_extracted(served[r.idx].Data_Row).ok
          /\ rvr_extracted(served[r.idx].Data_Row).vis = r.vis
    /\ summary # <<>> =>
          /\ summary[1].curr_vis \in 0..5000
          /\ summary[1].crit_rvr \in 0..5000
          /\ summary[1].avg_vis \in 0..5000

\* A finished run on a source that held a valid general reading, a general
\* row of value above 5000 and a runway row of value above 5000.
C2_Witness ==
    /\ pc = "done"
    /\ \E i \in 1..Len(served) :
          /\ gen_extracted(served[i].Data_Row).ok
          /\ gen_extracted(served[i].Data_Row).vis > 5000
    /\ \E i \in 1..Len(served) :
          /\ rvr_extracted(served[i].Data_Row).ok
          /\ rvr_extracted(served[i].Data_Row).vis > 5000

\* C3: the critical runway RVR reported is the least value among the readings
\* of window_runway taken at the latest instant present in window_runway, and
\* 0 when window_runway is empty.
C3_CriticalRvrAtLatestInstant ==
    pc = "done" =>
        summary[1].crit_rvr =
            IF f_rvr = <<>> THEN 0
            ELSE Min({f_rvr[i].vis : i \in
                        {k \in 1..Len(f_rvr) :
                            f_rvr[k].Timestamp.inst = Max(Insts(f_rvr))}})

\* C4: the current general visibility reported is the value of a reading of
\* window_general with the greatest timestamp, whatever the order of the rows
\* in the source, and 0 when window_general is empty.
C4_CurrentVisIsChronologicallyLast ==
    pc = "done" =>
        IF f_gen = <<>> THEN summary[1].curr_vis = 0
        ELSE \E i \in 1..Len(f_gen) :
                /\ f_gen[i].Timestamp.inst = Max(Insts(f_gen))
                /\ f_gen[i].vis = summary[1].curr_vis

\* C5: a run whose cleaned general series is empty ends in the failure
\* outcome: its next step reports the error, and in no state of such a run
\* is a window selected or a metric emitted, whatever the runway series holds.
C5_EmptyGeneralSeriesFails ==
    /\ [](df_gen = <<>> =>
            /\ pc \in {"idle", "loaded", "error"}
            /\ summary = <<>> /\ f_gen = <<>> /\ f_rvr = <<>>)
    /\ [][(pc = "loaded" /\ df_gen = <<>>) =>
            (pc' = "error" /\ error' # "" /\ summary' = <<>>)]_vars

\* A run that failed on the header with an empty general series and a
\* runway series that is not empty.
C5_Witness ==
    /\ pc = "error"
    /\ error = "strftime"
    /\ df_gen = <<>>
    /\ df_rvr # <<>>

\* A row that yields a general-visibility reading: a parseable timestamp and
\* a payload whose value is extracted and in range.
WellFormedGen(row) ==
    /\ row.Timestamp.kind = "naive"
    /\ has_gen_marker(row.Data_Row)
    /\ gen_extracted(row.Data_Row).ok
    /\ gen_extracted(row.Data_Row).vis <= 5000

\* C6: when the source holds at least one well-formed general-visibility
\* row, rows with an unparseable timestamp or a failed extraction do not make
\* the run fail: the run succeeds and the general series holds exactly the
\* readings of the well-formed rows.
C6_MalformedRowsAbsorbed ==
    (pc # "idle" /\ \E i \in 1..Len(served) : WellFormedGen(served[i])) =>
        /\ pc # "error"
        /\ IdxOf(df_gen) = {i \in 1..Len(served) : WellFormedGen(served[i])}

\* C7: the fog category is Dense iff the current visibility is at most 50,
\* Moderate iff it is 51..200, Shallow iff it is 201..500 and Clear iff it is
\* at least 501.
C7_FogCategoryBands ==
    pc = "done" =>
        LET v == summary[1].curr_vis
            t == summary[1].fog_type
        IN  /\ v \in 0..5000
            /\ t \in {"Dense", "Moderate", "Shallow", "Clear"}
            /\ (t = "Dense") <=> (v <= 50)
            /\ (t = "Moderate") <=> (51 <= v /\ v <= 200)
            /\ (t = "Shallow") <=> (201 <= v /\ v <= 500)
            /\ (t = "Clear") <=> (v >= 501)

\* A finished run whose current visibility is 201, the first value of the
\* Shallow band.
C7_Witness ==
    /\ pc = "done"
    /\ summary[1].curr_vis = 201
    /\ summary[1].fog_type = "Shallow"

\* The window the code selects from a frame for a lookback label.
WindowFor(frame, tr) == window(frame, cutoff_of(latest_time, hours_map(tr)))

\* C8: for the series pair of a run, the 6-hour window is contained in the
\* 24-hour window and the 24-hour window in the 7-day window, for both
\* series; the window the run selected is one of them, and the latest
\* timestamp is that of the cleaned general series whatever was selected.
C8_MonotonicWidening ==
    pc = "done" =>
        /\ latest_time.inst = Max(Insts(df_gen))
        /\ \A pair \in {<<df_gen, f_gen>>, <<df_rvr, f_rvr>>} :
              LET w6  == Elems(WindowFor(pair[1], "Last 6 Hours"))
                  w24 == Elems(WindowFor(pair[1], "Last 24 Hours"))
                  w7d == Elems(WindowFor(pair[1], "Last 7 Days"))
                  sel == Elems(pair[2])
              IN  /\ w6 \subseteq w24 /\ w24 \subseteq w7d
                  /\ time_range = "Last 6 Hours" => sel \subseteq w24
                  /\ time_range = "Last 24 Hours" =>
                        w6 \subseteq sel /\ sel \subseteq w7d
                  /\ time_range = "Last 7 Days" => w24 \subseteq sel

\* A finished 24-hour run whose general window is strictly between the
\* 6-hour and the 7-day windows.
C8_Witness ==
    /\ pc = "done"
    /\ time_range = "Last 24 Hours"
    /\ Len(WindowFor(df_gen, "Last 6 Hours")) < Len(f_gen)
    /\ Len(f_gen) < Len(WindowFor(df_gen, "Last 7 Days"))
    /\ Len(WindowFor(df_gen, "Last 7 Days")) < Len(df_gen) + 1

\* C9: whatever runs came before, the series pair of a run is the one
\* computed from the rows served to this run, both series from the same rows,
\* and the windows and the metrics are those of this pair and this lookback.
C9_WholesaleReplacement ==
    /\ pc \in {"loaded", "header", "done"} =>
          /\ df_gen = gen_frame(served)
          /\ df_rvr = rvr_frame(served)
          /\ IdxOf(df_gen) \cup IdxOf(df_rvr) \subseteq 1..Len(served)
    /\ pc = "done" =>
          /\ f_gen = WindowFor(gen_frame(served), time_range)
          /\ f_rvr = WindowFor(rvr_frame(served), time_range)
          /\ summary = <<metrics(f_gen, f_rvr)>>

\* A finished run that replaced an output holding a reading of a row the
\* source no longer holds.
C9_Witness ==
    /\ pc = "done"
    /\ dropped
    /\ Len(df_gen) < Len(served)

\* C10: in a finished run the general window is not empty and holds a reading
\* at the latest timestamp, for every lookback; the current visibility and
\* the fog category are those of a reading of the window, and the average is
\* that of the window's readings.
C10_GeneralWindowNeverEmpty ==
    pc = "done" =>
        /\ df_gen # <<>>
        /\ \A tr \in TimeRanges :
              \E r \in Elems(WindowFor(df_gen, tr)) :
                  r.Timestamp.inst = Max(Insts(df_gen))
        /\ f_gen # <<>>
        /\ \E r \in Elems(f_gen) : r.Timestamp.inst = Max(Insts(df_gen))
        /\ \E r \in Elems(f_gen) :
              /\ r.vis = summary[1].curr_vis
              /\ summary[1].fog_type = fog_type_of(r.vis)
        /\ Min({r.vis : r \in Elems(f_gen)}) <= summary[1].avg_vis
        /\ summary[1].avg_vis <= Max({r.vis : r \in Elems(f_gen)})

\* A finished 6-hour run whose window leaves out older general readings and
\* whose category is not Dense.
C10_Witness ==
    /\ pc = "done"
    /\ time_range = "Last 6 Hours"
    /\ Len(f_gen) < Len(df_gen)
    /\ summary[1].fog_type # "Dense"

=============================================================================
